---------------------------- MODULE Spec2Model ----------------------------
(***************************************************************************)
(* Keyboard bridge (sheepy0125/keyboard-bridge): the per-event pipeline of *)
(* src/main.rs and src/chord.rs.                                           *)
(*                                                                         *)
(*   main loop:  read_process (process_key_events ; process_chords)        *)
(*               -> to_report -> write retry loop -> flush retry loop      *)
(*                                                                         *)
(* key.rs (KeyCode, ModifierKey, RegularKey, KeyEvent and the conversion   *)
(* of an evdev event to a KeyCode) is not among the sources; the enum      *)
(* values it declares are taken from the design document and the USB HID   *)
(* boot keyboard layout.                                                   *)
(***************************************************************************)
EXTENDS Integers, Sequences, FiniteSets, TLC

VARIABLES
    keys,             \* Keyboard.keys: Vec<RegularKey>
    modifiers,        \* Keyboard.modifiers: Vec<ModifierKey>
    chord_buffer,     \* Keyboard.chord_buffer: Cell<KeyCode>
    chord_length,     \* Keyboard.chord_length: u8
    possible_chords,  \* Keyboard.possible_chords: Vec<&[KeyCode]>
    all_chords,       \* ALL_CHORDS of the build: the shipped table, or one with an extra chord
    pc,               \* position of main: "read", "write", "flush", "exited", "failed"
    attempt,          \* main's local `attempt`
    usb_report,       \* main's local `usb_report`: [u8; 8], indexed 0..7
    event_value,      \* value of the key event processed last (-1: none yet)
    key_code,         \* key code of the key event processed last
    handled,          \* chords passed to handle_chord by the event processed last
    skipped,          \* observer: the event read last was not a key event
    prev_length,      \* observer: chord_length before the event processed last
    quit_progress     \* observer: how far the press history follows the quit sequence

vars == <<keys, modifiers, chord_buffer, chord_length, possible_chords,
          all_chords, pc, attempt, usb_report, event_value, key_code, handled,
          skipped, prev_length, quit_progress>>

---------------------------------------------------------------------------
(* Bounds of the model *)

\* Regular keys held at once in Spec
MaxKeys == 2
\* Modifier keys held at once in Spec
MaxMods == 1
\* Failed write attempts per report in Spec, SpecKeys and SpecMods
MaxWriteRetries == 1
\* Keys (regular and modifier) held at once in SpecKeys
MaxHeld == 7
\* Modifier keys held at once in SpecMods
MaxHeldMods == 3
\* Keys (regular and modifier) held at once in SpecTracker
MaxTracked == 3

---------------------------------------------------------------------------
(* key.rs: key codes *)

Regular(k) == [tag |-> "Regular", key |-> k]
Modifier(m) == [tag |-> "Modifier", key |-> m]
Unknown == [tag |-> "Unknown", key |-> "Unknown"]

PhysicalModifiers ==
    {"LeftCtrl", "LeftShift", "LeftAlt", "LeftSuper",
     "RightCtrl", "RightShift", "RightAlt", "RightSuper"}

\* ModifierKey as u8: the bit of the modifier in byte 0 of the report
ModifierBit(m) ==
    CASE m = "LeftCtrl"   -> 1
      [] m = "LeftShift"  -> 2
      [] m = "LeftAlt"    -> 4
      [] m = "LeftSuper"  -> 8
      [] m = "RightCtrl"  -> 16
      [] m = "RightShift" -> 32
      [] m = "RightAlt"   -> 64
      [] m = "RightSuper" -> 128

\* RegularKey as u8: the USB HID usage code of the key
UsageCode(k) ==
    CASE k = "A"         -> 4
      [] k = "Enter"     -> 40
      [] k = "Backspace" -> 42
      [] k = "Grave"     -> 53
      [] k = "Period"    -> 55

\* KeyEvent as u8
Release == 0
Press == 1
Repeat == 2

---------------------------------------------------------------------------
(* chord.rs: the chord table *)

CHORD_SEQUENCE_START_KEY == Regular("Enter")

QUIT_CHORD_SEQUENCE ==
    << Modifier("EitherShift"), Regular("Grave"), Regular("Period"),
       Regular("Backspace"), Regular("Backspace"), Regular("Backspace") >>

ALL_CHORDS == << QUIT_CHORD_SEQUENCE >>

\* "Extra chords go here": a chord added to the table as the example of the
\* source is, sharing its first key with the quit chord; handle_chord has no
\* arm for it
EXTRA_CHORD_SEQUENCE ==
    << Modifier("EitherShift"), Regular("A"), Regular("A") >>

\* ALL_CHORDS of a build with the extra chord
EXTRA_CHORDS == << QUIT_CHORD_SEQUENCE, EXTRA_CHORD_SEQUENCE >>

\* handle_chord: the quit chord exits the process, any other is logged
\* The largest value of the u8 counter chord_length
U8_MAX == 255

\* A chord of n keys added to the table, with no arm in handle_chord
LongChord(n) == [i \in 1..n |-> Regular("A")]

\* Tables of one chord, of the two greatest lengths below U8_MAX
LongTables == {<<LongChord(U8_MAX - 2)>>, <<LongChord(U8_MAX - 1)>>}

HandlerExits(chord) == chord = QUIT_CHORD_SEQUENCE

---------------------------------------------------------------------------
(* main.rs: constants and helpers *)

MAX_ATTEMPTS == 256

\* u8 arithmetic
U8(n) == n % 256

RECURSIVE BitOr(_, _)
\* a | b on naturals
BitOr(a, b) ==
    IF a = 0 THEN b
    ELSE IF b = 0 THEN a
    ELSE (IF a % 2 = 1 \/ b % 2 = 1 THEN 1 ELSE 0) + 2 * BitOr(a \div 2, b \div 2)

\* Mutant of Position: the last index holding x
PositionLast(s, x) ==
    IF \E i \in 1..Len(s) : s[i] = x
    THEN CHOOSE i \in 1..Len(s) : s[i] = x /\ \A j \in (i + 1)..Len(s) : s[j] # x
    ELSE 0

\* Vec::iter().position(|k| k == &x): the first index holding x, 0 when none
Position(s, x) ==
    IF \E i \in 1..Len(s) : s[i] = x
    THEN CHOOSE i \in 1..Len(s) : s[i] = x /\ \A j \in 1..(i - 1) : s[j] # x
    ELSE 0

\* Vec::remove(idx)
RemoveAt(s, idx) == SubSeq(s, 1, idx - 1) \o SubSeq(s, idx + 1, Len(s))

\* if let Some(idx) = position(..) { remove(idx) }
RemoveFirst(s, x) ==
    IF Position(s, x) = 0 THEN s ELSE RemoveAt(s, Position(s, x))


---------------------------------------------------------------------------
(* main.rs: USBKeyEvent::to_report *)

RECURSIVE OrModifiersAdding(_, _)
\* Mutant of OrModifiers: the bits are added, not or-ed
OrModifiersAdding(mods, acc) ==
    IF mods = <<>> THEN acc
    ELSE OrModifiersAdding(Tail(mods), acc + ModifierBit(Head(mods)))

RECURSIVE OrModifiers(_, _)
\* for modifier_key in self.modifiers { report[0] |= *modifier_key as u8 }
OrModifiers(mods, acc) ==
    IF mods = <<>> THEN acc
    ELSE OrModifiers(Tail(mods), BitOr(acc, ModifierBit(Head(mods))))

\* Mutant of to_report: the keys start at byte 1
to_report_from_byte_1(mods, ks) ==
    [b \in 0..7 |->
        IF b = 0 THEN U8(OrModifiers(mods, 0))
        ELSE IF b >= 1 /\ b - 1 < Len(ks) /\ b - 1 < 6 THEN U8(UsageCode(ks[b]))
        ELSE 0]

\* Mutant of to_report: of more than 6 keys the last 6 are encoded
to_report_last_six(mods, ks) ==
    LET skip == IF Len(ks) > 6 THEN Len(ks) - 6 ELSE 0
    IN [b \in 0..7 |->
          IF b = 0 THEN U8(OrModifiers(mods, 0))
          ELSE IF b >= 2 /\ b - 2 < Len(ks) THEN U8(UsageCode(ks[skip + b - 1]))
          ELSE 0]

\* The 8-byte report [mod, <empty>, key 1, ..., key 6], indexed 0..7
to_report(mods, ks) ==
    [b \in 0..7 |->
        IF b = 0 THEN U8(OrModifiers(mods, 0))
        ELSE IF b >= 2 /\ b - 2 < Len(ks) /\ b - 2 < 6 THEN U8(UsageCode(ks[b - 1]))
        ELSE 0]

---------------------------------------------------------------------------
(* main.rs: Keyboard::process_key_events *)

\* event.value().try_into().unwrap_or(Release as u8)
KeyEventVariant(value) ==
    IF value < 0 \/ value > 255 THEN Release ELSE value

\* Mutant of ReleaseArm: a released modifier stays in its vec
ReleaseArm_regular_only(code, ks, ms) ==
    [keys |-> IF code.tag = "Regular" THEN RemoveFirst(ks, code.key) ELSE ks,
     modifiers |-> ms,
     chord_buffer |-> Unknown]

\* The Release arm: remove the key from the vecs, clear the chord buffer
ReleaseArm(code, ks, ms) ==
    [keys |-> IF code.tag = "Regular" THEN RemoveFirst(ks, code.key) ELSE ks,
     modifiers |-> IF code.tag = "Modifier" THEN RemoveFirst(ms, code.key) ELSE ms,
     chord_buffer |-> Unknown]

\* The Press arm: push the key to the vecs, set the chord buffer
PressArm(code, ks, ms) ==
    [keys |-> IF code.tag = "Regular" THEN Append(ks, code.key) ELSE ks,
     modifiers |-> IF code.tag = "Modifier" THEN Append(ms, code.key) ELSE ms,
     chord_buffer |-> code]

\* The Repeat arm: nothing is assigned
RepeatArm(ks, ms, buf) ==
    [keys |-> ks, modifiers |-> ms, chord_buffer |-> buf]

\* Mutant of process_key_events: a release leaves the chord buffer as it was
process_key_events_stale_buffer(value, code, ks, ms, buf) ==
    IF KeyEventVariant(value) = Release
    THEN [ReleaseArm(code, ks, ms) EXCEPT !.chord_buffer = buf]
    ELSE IF KeyEventVariant(value) = Press THEN PressArm(code, ks, ms)
    ELSE RepeatArm(ks, ms, buf)

process_key_events(value, code, ks, ms, buf) ==
    IF KeyEventVariant(value) = Release THEN ReleaseArm(code, ks, ms)
    ELSE IF KeyEventVariant(value) = Press THEN PressArm(code, ks, ms)
    ELSE RepeatArm(ks, ms, buf)

---------------------------------------------------------------------------
(* main.rs: Keyboard::process_chords *)

\* "Handle special chord keys": left and right modifiers become Either*
\* Mutant of Canonical: only the left variants are made canonical
Canonical_left_only(buf) ==
    IF buf.tag # "Modifier" THEN buf
    ELSE CASE buf.key = "LeftCtrl"  -> Modifier("EitherCtrl")
           [] buf.key = "LeftShift" -> Modifier("EitherShift")
           [] buf.key = "LeftAlt"   -> Modifier("EitherAlt")
           [] buf.key = "LeftSuper" -> Modifier("EitherSuper")
           [] OTHER -> buf

Canonical(buf) ==
    IF buf.tag # "Modifier" THEN buf
    ELSE CASE buf.key \in {"LeftCtrl", "RightCtrl"}   -> Modifier("EitherCtrl")
           [] buf.key \in {"LeftShift", "RightShift"} -> Modifier("EitherShift")
           [] buf.key \in {"LeftAlt", "RightAlt"}     -> Modifier("EitherAlt")
           [] buf.key \in {"LeftSuper", "RightSuper"} -> Modifier("EitherSuper")
           [] OTHER -> buf

\* Mutant of RetainTest: a chord with no key at the index is kept
RetainTest_keeps_out_of_range(chord, len, buf) ==
    \/ len - 1 >= Len(chord)
    \/ chord[len] = buf

\* The closure of possible_chords.retain: chord.get(chord_length - 1) is
\* Some(key) and key equals the chord buffer
RetainTest(chord, len, buf) ==
    /\ len - 1 < Len(chord)
    /\ chord[len] = buf

\* self.possible_chords.retain(..)
Retain(cands, len, buf) ==
    LET Test(chord) == RetainTest(chord, len, buf)
    IN SelectSeq(cands, Test)

\* The start key arm: listen for all chords
StartArm(buf) ==
    [chord_buffer |-> buf, chord_length |-> 1, possible_chords |-> all_chords,
     handled |-> <<>>]

\* The early return of an idle matcher or an empty chord buffer
IdleReturn(buf, len, cands) == len = 0 \/ buf = Unknown

\* "Check if we have concluded a chord": the chord handed to handle_chord
Concluded(cands, len) ==
    IF Len(cands) = 1 /\ U8(Len(cands[1])) = len THEN <<cands[1]>> ELSE <<>>

\* Mutant of MatchStep: the matched length is not reset when no candidate is left
MatchStep_no_reset(buf, len, cands) ==
    LET cb == Canonical(buf)
        kept == Retain(cands, len, cb)
        counted == U8(len + 1)
    IN [chord_buffer |-> cb, chord_length |-> counted, possible_chords |-> kept,
        handled |-> Concluded(kept, counted)]

\* The matching step: canonicalize, retain, count, conclude
MatchStep(buf, len, cands) ==
    LET cb == Canonical(buf)
        kept == Retain(cands, len, cb)
        counted == U8(len + 1)
        newlen == IF kept = <<>> THEN 0 ELSE counted
    IN [chord_buffer |-> cb, chord_length |-> newlen, possible_chords |-> kept,
        handled |-> Concluded(kept, newlen)]

\* chord_length += 1 on a u8: at U8_MAX a build with overflow checks panics,
\* a build without them wraps to 0 and goes on to the write
AfterIncrement(buf, len, cands) ==
    IF buf # CHORD_SEQUENCE_START_KEY /\ ~IdleReturn(buf, len, cands)
       /\ len = U8_MAX
    THEN {"write", "panicked"}
    ELSE {"write"}

\* Mutant of process_chords: the idle return is taken before the start key test
process_chords_idle_first(buf, len, cands) ==
    IF IdleReturn(buf, len, cands)
    THEN [chord_buffer |-> buf, chord_length |-> len,
          possible_chords |-> cands, handled |-> <<>>]
    ELSE IF buf = CHORD_SEQUENCE_START_KEY THEN StartArm(buf)
    ELSE MatchStep(buf, len, cands)

process_chords(buf, len, cands) ==
    IF buf = CHORD_SEQUENCE_START_KEY THEN StartArm(buf)
    ELSE IF IdleReturn(buf, len, cands)
         THEN [chord_buffer |-> buf, chord_length |-> len,
               possible_chords |-> cands, handled |-> <<>>]
         ELSE MatchStep(buf, len, cands)

---------------------------------------------------------------------------
(* The observer of the quit sequence *)

\* The key presses of the documented way to quit, the start key first
QuitPresses == <<CHORD_SEQUENCE_START_KEY>> \o QUIT_CHORD_SEQUENCE

\* quit_progress = n >= 0: the key events so far held no repeat, and their
\* presses were, in order, the first n of QuitPresses (either Shift for
\* EitherShift); -1 otherwise.
Observe(progress, value, code) ==
    IF KeyEventVariant(value) = Release THEN progress
    ELSE IF /\ KeyEventVariant(value) = Press
            /\ progress >= 0
            /\ progress < Len(QuitPresses)
            /\ Canonical(code) = QuitPresses[progress + 1]
         THEN progress + 1
         ELSE -1

---------------------------------------------------------------------------
(* main.rs: main, Keyboard::read_process *)

ZeroReport == [b \in 0..7 |-> 0]

\* The state after Keyboard::new in a build whose ALL_CHORDS is table
InitBuild(table) ==
    /\ keys = <<>>
    /\ modifiers = <<>>
    /\ chord_buffer = Unknown
    /\ chord_length = 0
    /\ possible_chords = <<>>
    /\ all_chords = table
    /\ pc = "read"
    /\ attempt = 0
    /\ usb_report = ZeroReport
    /\ event_value = -1
    /\ key_code = Unknown
    /\ handled = <<>>
    /\ skipped = FALSE
    /\ prev_length = 0
    /\ quit_progress = 0

Init == InitBuild(ALL_CHORDS)

InitLong == \E table \in LongTables : InitBuild(table)

InitExtra == InitBuild(EXTRA_CHORDS)

\* Mutant of KeyEvent: the report is encoded before the tracker update
KeyEvent_report_first(value, code) ==
    /\ pc = "read"
    /\ LET t == process_key_events(value, code, keys, modifiers, chord_buffer)
           c == process_chords(t.chord_buffer, chord_length, possible_chords)
       IN /\ keys' = t.keys
          /\ modifiers' = t.modifiers
          /\ chord_buffer' = c.chord_buffer
          /\ chord_length' = c.chord_length
          /\ possible_chords' = c.possible_chords
          /\ handled' = c.handled
          /\ IF c.handled # <<>> /\ HandlerExits(c.handled[1])
             THEN /\ pc' = "exited"
                  /\ UNCHANGED <<usb_report, attempt>>
             ELSE /\ pc' \in AfterIncrement(t.chord_buffer, chord_length,
                                            possible_chords)
                  /\ usb_report' = to_report(modifiers, keys)
                  /\ attempt' = 0
    /\ event_value' = value
    /\ key_code' = code
    /\ skipped' = FALSE
    /\ prev_length' = chord_length
    /\ quit_progress' = Observe(quit_progress, value, code)
    /\ UNCHANGED all_chords

\* Mutant of KeyEvent: a key pressed while the matcher listens is kept from
\* the pressed lists
KeyEvent_consumes_chord_keys(value, code) ==
    /\ pc = "read"
    /\ LET t == IF value = Press /\ chord_length >= 1
                THEN [keys |-> keys, modifiers |-> modifiers, chord_buffer |-> code]
                ELSE process_key_events(value, code, keys, modifiers, chord_buffer)
           c == process_chords(t.chord_buffer, chord_length, possible_chords)
       IN /\ keys' = t.keys
          /\ modifiers' = t.modifiers
          /\ chord_buffer' = c.chord_buffer
          /\ chord_length' = c.chord_length
          /\ possible_chords' = c.possible_chords
          /\ handled' = c.handled
          /\ IF c.handled # <<>> /\ HandlerExits(c.handled[1])
             THEN /\ pc' = "exited"
                  /\ UNCHANGED <<usb_report, attempt>>
             ELSE /\ pc' \in AfterIncrement(t.chord_buffer, chord_length,
                                            possible_chords)
                  /\ usb_report' = to_report(t.modifiers, t.keys)
                  /\ attempt' = 0
    /\ event_value' = value
    /\ key_code' = code
    /\ skipped' = FALSE
    /\ prev_length' = chord_length
    /\ quit_progress' = Observe(quit_progress, value, code)
    /\ UNCHANGED all_chords

\* One key event: read_process (process_key_events, process_chords, with
\* handle_chord), then to_report and the reset of attempt before the write loop
KeyEvent(value, code) ==
    /\ pc = "read"
    /\ LET t == process_key_events(value, code, keys, modifiers, chord_buffer)
           c == process_chords(t.chord_buffer, chord_length, possible_chords)
       IN /\ keys' = t.keys
          /\ modifiers' = t.modifiers
          /\ chord_buffer' = c.chord_buffer
          /\ chord_length' = c.chord_length
          /\ possible_chords' = c.possible_chords
          /\ handled' = c.handled
          /\ IF c.handled # <<>> /\ HandlerExits(c.handled[1])
             THEN /\ pc' = "exited"
                  /\ UNCHANGED <<usb_report, attempt>>
             ELSE /\ pc' \in AfterIncrement(t.chord_buffer, chord_length,
                                            possible_chords)
                  /\ usb_report' = to_report(t.modifiers, t.keys)
                  /\ attempt' = 0
    /\ event_value' = value
    /\ key_code' = code
    /\ skipped' = FALSE
    /\ prev_length' = chord_length
    /\ UNCHANGED all_chords
    /\ quit_progress' = Observe(quit_progress, value, code)

\* Mutant of OtherEvent: the event is processed as the release of no key
OtherEvent_as_release ==
    /\ pc = "read"
    /\ skipped' = TRUE
    /\ chord_buffer' = Unknown
    /\ pc' = "write"
    /\ usb_report' = to_report(modifiers, keys)
    /\ UNCHANGED <<keys, modifiers, chord_length, possible_chords, all_chords,
                   attempt, event_value, key_code, handled, prev_length,
                   quit_progress>>

\* An event that is not a key event is skipped
OtherEvent ==
    /\ pc = "read"
    /\ skipped' = TRUE
    /\ UNCHANGED <<keys, modifiers, chord_buffer, chord_length, possible_chords,
                   all_chords, pc, attempt, usb_report, event_value, key_code,
                   handled, prev_length, quit_progress>>

\* next_event fails: the error leaves main
FetchError ==
    /\ pc = "read"
    /\ pc' = "failed"
    /\ UNCHANGED <<keys, modifiers, chord_buffer, chord_length, possible_chords,
                   all_chords, attempt, usb_report, event_value, key_code,
                   handled, skipped, prev_length, quit_progress>>

\* attempt += 1; write_all succeeds: break, attempt = 0
WriteOk ==
    /\ pc = "write"
    /\ pc' = "flush"
    /\ attempt' = 0
    /\ UNCHANGED <<keys, modifiers, chord_buffer, chord_length, possible_chords,
                   all_chords, usb_report, event_value, key_code, handled,
                   skipped, prev_length, quit_progress>>

\* Mutant of WriteFail: the error of write_all leaves main
WriteFail_fatal ==
    /\ pc = "write"
    /\ attempt' = attempt + 1
    /\ pc' = "failed"
    /\ UNCHANGED <<keys, modifiers, chord_buffer, chord_length, possible_chords,
                   all_chords, usb_report, event_value, key_code, handled,
                   skipped, prev_length, quit_progress>>

\* attempt += 1; write_all fails: a warning, and the loop goes round
WriteFail ==
    /\ pc = "write"
    /\ attempt' = attempt + 1
    /\ UNCHANGED <<keys, modifiers, chord_buffer, chord_length, possible_chords,
                   all_chords, pc, usb_report, event_value, key_code, handled,
                   skipped, prev_length, quit_progress>>

\* flush succeeds: break, and the main loop reads the next event
FlushOk ==
    /\ pc = "flush"
    /\ pc' = "read"
    /\ UNCHANGED <<keys, modifiers, chord_buffer, chord_length, possible_chords,
                   all_chords, attempt, usb_report, event_value, key_code,
                   handled, skipped, prev_length, quit_progress>>

\* flush fails: a warning, and the loop goes round (attempt is not counted)
FlushFail ==
    /\ pc = "flush"
    /\ UNCHANGED vars

---------------------------------------------------------------------------
(* The input events of each specification *)

EventValues == {Release, Press, Repeat}

\* Spec: the keys of the quit sequence, both Shift keys, an unrecognized key
RegularKeys == {"Enter", "Grave", "Period", "Backspace"}
ModifierKeys == {"LeftShift", "RightShift"}

KeyCodes ==
    {Regular(k) : k \in RegularKeys} \cup {Modifier(m) : m \in ModifierKeys}
        \cup {Unknown}

\* SpecKeys: two regular keys (one the start key) and a modifier
HeldKeyCodes == {Regular("A"), Regular("Enter"), Modifier("LeftShift")}

\* SpecTracker: two regular keys and two modifiers
TrackedKeyCodes ==
    {Regular("A"), Regular("Backspace"), Modifier("LeftShift"), Modifier("RightCtrl")}

\* SpecMods: the eight physical modifiers
ModifierCodes == {Modifier(m) : m \in PhysicalModifiers}

\* SpecDispatch: one regular key
DispatchCodes == {Regular("A")}

\* SpecLong: the start key and the key of the long chords
LongKeyCodes == {Regular("Enter"), Regular("A")}

\* SpecChords: the keys of the extra chord, a key of the quit chord, an
\* unrecognized key
ChordKeyCodes ==
    {Regular("Enter"), Regular("A"), Regular("Grave"), Modifier("LeftShift"),
     Modifier("RightShift"), Unknown}

\* A press is offered while fewer than maxk regular keys (maxm modifiers) are held
Offered(value, code, maxk, maxm) ==
    \/ value # Press
    \/ code.tag = "Unknown"
    \/ code.tag = "Regular" /\ Len(keys) < maxk
    \/ code.tag = "Modifier" /\ Len(modifiers) < maxm

Next ==
    \/ \E value \in EventValues, code \in KeyCodes :
          Offered(value, code, MaxKeys, MaxMods) /\ KeyEvent(value, code)
    \/ OtherEvent
    \/ FetchError
    \/ WriteOk
    \/ attempt < MaxWriteRetries /\ WriteFail
    \/ FlushOk
    \/ FlushFail

Spec == Init /\ [][Next]_vars

NextKeys ==
    \/ \E value \in EventValues, code \in HeldKeyCodes :
          /\ value = Press => Len(keys) + Len(modifiers) < MaxHeld
          /\ KeyEvent(value, code)
    \/ WriteOk
    \/ FlushOk

SpecKeys == Init /\ [][NextKeys]_vars

NextTracker ==
    \/ \E value \in EventValues, code \in TrackedKeyCodes :
          /\ value = Press => Len(keys) + Len(modifiers) < MaxTracked
          /\ KeyEvent(value, code)
    \/ WriteOk
    \/ FlushOk

SpecTracker == Init /\ [][NextTracker]_vars

NextMods ==
    \/ \E value \in {Release, Press}, code \in ModifierCodes :
          Offered(value, code, 0, MaxHeldMods) /\ KeyEvent(value, code)
    \/ WriteOk
    \/ FlushOk

SpecMods == Init /\ [][NextMods]_vars

\* The write loop may fail more often than MAX_ATTEMPTS times
NextDispatch ==
    \/ \E value \in EventValues, code \in DispatchCodes :
          Offered(value, code, 1, 0) /\ KeyEvent(value, code)
    \/ OtherEvent
    \/ FetchError
    \/ WriteOk
    \/ attempt <= MAX_ATTEMPTS /\ WriteFail
    \/ FlushOk
    \/ FlushFail

SpecDispatch == Init /\ [][NextDispatch]_vars

\* A build with the extra chord in its table
NextChords ==
    \/ \E value \in EventValues, code \in ChordKeyCodes :
          Offered(value, code, MaxKeys, MaxMods) /\ KeyEvent(value, code)
    \/ OtherEvent
    \/ WriteOk
    \/ FlushOk

SpecChords == InitExtra /\ [][NextChords]_vars

NextLong ==
    \/ \E value \in EventValues, code \in LongKeyCodes :
          Offered(value, code, 1, 0) /\ KeyEvent(value, code)
    \/ WriteOk
    \/ FlushOk

SpecLong == InitLong /\ [][NextLong]_vars

TypeOK ==
    /\ chord_length \in 0..255
    /\ pc \in {"read", "write", "flush", "exited", "failed", "panicked"}
    /\ \A b \in 0..7 : usb_report[b] \in 0..255

---------------------------------------------------------------------------
(* Properties *)

\* A step that processes one key event
IsKeyStep == pc = "read" /\ pc' \in {"write", "exited", "panicked"}

\* A report has been encoded for the tracked lists of the current state
Reported == event_value # -1 /\ pc # "exited"

\* The elements of a sequence
Range(s) == {s[i] : i \in 1..Len(s)}

\* C1: when the presses so far are the start key, a Shift, Grave, Period and
\* three Backspaces (releases in between allowed, no repeats), the quit handler
\* is invoked by the third Backspace, the 6th press after the start key, and
\* by no earlier event.
C1_QuitOnSixthKey ==
    /\ (quit_progress >= 0 /\ quit_progress < Len(QuitPresses))
          => (handled = <<>> /\ pc # "exited")
    /\ quit_progress = Len(QuitPresses)
          => (handled = <<QUIT_CHORD_SEQUENCE>> /\ pc = "exited")

\* C2: the write retry loop ends after at most MAX_ATTEMPTS failed attempts:
\* the loop is never still running once MAX_ATTEMPTS attempts have failed.
C2_WriteLoopBounded == pc = "write" => attempt < MAX_ATTEMPTS

\* C3: a Repeat event leaves the matched length and the candidate list as
\* they were and invokes no handler.
C3_RepeatLeavesMatcher ==
    [][(IsKeyStep /\ event_value' = Repeat)
          => /\ chord_length' = chord_length
             /\ possible_chords' = possible_chords
             /\ handled' = <<>>]_vars

\* The key code equals, after canonicalization, the element at the matched
\* position of some remaining candidate
MatchesCandidate(code, len, cands) ==
    \E i \in 1..Len(cands) :
        len <= Len(cands[i]) /\ cands[i][len] = Canonical(code)

\* C4: while Listening, a press of a key other than the start key (regular,
\* modifier or Unknown) that matches no remaining candidate at the matched
\* position empties the candidate list and resets the matched length to 0;
\* a further press other than the start key, with the matcher Idle, invokes no
\* handler and leaves it Idle.
C4_MismatchReturnsToIdle ==
    [][(IsKeyStep /\ event_value' = Press /\ key_code' # CHORD_SEQUENCE_START_KEY)
          => /\ (chord_length >= 1
                   /\ ~MatchesCandidate(key_code', chord_length, possible_chords))
                  => (possible_chords' = <<>> /\ chord_length' = 0)
             /\ chord_length = 0
                  => (chord_length' = 0 /\ handled' = <<>>)]_vars

\* C5: a press of the start key, in any state, sets the matched length to 1
\* and the candidate list to the full chord table, and invokes no handler.
C5_StartKeyArms ==
    [][(IsKeyStep /\ event_value' = Press /\ key_code' = CHORD_SEQUENCE_START_KEY)
          => /\ chord_length' = 1
             /\ possible_chords' = ALL_CHORDS
             /\ handled' = <<>>
             /\ pc' = "write"]_vars

\* C5 witness: the start key was pressed in the middle of a chord
C5_Witness ==
    /\ event_value = Press
    /\ key_code = CHORD_SEQUENCE_START_KEY
    /\ prev_length >= 2
    /\ chord_length = 1
    /\ possible_chords = ALL_CHORDS

\* The matcher after a press of code in a state with the given chord buffer,
\* matched length and candidates
AfterPress(code, buf, len, cands) ==
    process_chords(process_key_events(Press, code, keys, modifiers, buf).chord_buffer,
                   len, cands)

\* C6: a Release event leaves the matched length and the candidate list as
\* they were and invokes no handler, and the next press has the effect on the
\* matcher that it would have had without the release.
C6_ReleaseLeavesMatcher ==
    [][(IsKeyStep /\ event_value' = Release)
          => /\ chord_length' = chord_length
             /\ possible_chords' = possible_chords
             /\ handled' = <<>>
             /\ pc' = "write"
             /\ \A code \in KeyCodes :
                   AfterPress(code, chord_buffer', chord_length', possible_chords')
                     = AfterPress(code, chord_buffer, chord_length, possible_chords)]_vars

\* C6 witness: a key was released in the middle of a chord
C6_Witness ==
    /\ event_value = Release
    /\ prev_length >= 2
    /\ chord_length = prev_length
    /\ possible_chords = ALL_CHORDS
    /\ pc = "write"

\* With n <= 6 regular keys tracked, bytes 2..2+n-1 of the report are the
\* usage codes of the tracked keys in the order of the list, the other bytes
\* among 2..7 are 0, and byte 1 is 0
ReportKeysInListOrder ==
    (Reported /\ Len(keys) <= 6)
        => /\ \A i \in 1..Len(keys) : usb_report[i + 1] = UsageCode(keys[i])
           /\ \A b \in (Len(keys) + 2)..7 : usb_report[b] = 0
           /\ usb_report[1] = 0

\* C7: with n <= 6 regular keys tracked, bytes 2..2+n-1 of the report are the
\* usage codes of the tracked keys in press order (the list's order: a press of
\* a regular key puts it last), the other bytes among 2..7 are 0, and byte 1
\* is 0.
C7_ReportKeysInOrder ==
    /\ []ReportKeysInListOrder
    /\ [][(IsKeyStep /\ event_value' = Press /\ key_code'.tag = "Regular")
             => keys' = keys \o <<key_code'.key>>]_vars

\* C7 witness: six keys are left, in press order, after a release
C7_Witness ==
    /\ Len(keys) = 6
    /\ keys[1] # keys[2]
    /\ event_value = Release
    /\ key_code.tag = "Regular"
    /\ pc = "write"

RECURSIVE SumBits(_)
\* The sum of the bits of a set of modifiers: their bitwise or, the bits
\* being distinct powers of two
SumBits(S) ==
    IF S = {} THEN 0
    ELSE LET m == CHOOSE x \in S : TRUE
         IN ModifierBit(m) + SumBits(S \ {m})

RECURSIVE OrBits(_)
\* The bitwise or of the bits of a set of modifiers
OrBits(S) ==
    IF S = {} THEN 0
    ELSE LET m == CHOOSE x \in S : TRUE
         IN BitOr(ModifierBit(m), OrBits(S \ {m}))

\* C8: byte 0 of the report is the bitwise or of the bits of the distinct
\* modifiers of the list, whatever their order and multiplicity.
C8_ModifierByte ==
    Reported => /\ usb_report[0] = OrBits(Range(modifiers))
                /\ usb_report[0] = SumBits(Range(modifiers))

\* C8 witness: three modifiers are held, one of them twice
C8_Witness ==
    /\ Len(modifiers) = 3
    /\ Cardinality(Range(modifiers)) = 2
    /\ pc = "write"

\* t is s without its first x, or s when s holds no x
WithoutFirst(s, t, x) ==
    IF x \notin Range(s) THEN t = s
    ELSE \E i \in 1..Len(s) :
            /\ s[i] = x
            /\ \A j \in 1..(i - 1) : s[j] # x
            /\ Len(t) = Len(s) - 1
            /\ \A j \in 1..Len(t) : t[j] = IF j < i THEN s[j] ELSE s[j + 1]

\* C9: a Release of key k removes the first tracked occurrence of k from its
\* list when there is one, and changes nothing else of the two lists.
C9_ReleaseRemovesFirst ==
    [][(IsKeyStep /\ event_value' = Release)
          => /\ key_code'.tag = "Regular"
                  => (WithoutFirst(keys, keys', key_code'.key)
                         /\ modifiers' = modifiers)
             /\ key_code'.tag = "Modifier"
                  => (WithoutFirst(modifiers, modifiers', key_code'.key)
                         /\ keys' = keys)
             /\ key_code'.tag = "Unknown"
                  => (keys' = keys /\ modifiers' = modifiers)]_vars

\* C9 witness: a key tracked twice was released, and its later occurrence stays
C9_Witness ==
    /\ event_value = Release
    /\ key_code = Regular("Backspace")
    /\ keys = <<"A", "Backspace">>
    /\ pc = "write"

\* C10: with more than 6 regular keys tracked, bytes 2..7 of the report are
\* the usage codes of the first 6 tracked keys in order, every byte is a u8,
\* and the report is the one of the first 6 keys alone.
C10_OverflowKeepsFirstSix ==
    (Reported /\ Len(keys) > 6)
        => /\ \A b \in 2..7 : usb_report[b] = UsageCode(keys[b - 1])
           /\ \A b \in 0..7 : usb_report[b] \in 0..255
           /\ usb_report = to_report(modifiers, SubSeq(keys, 1, 6))

\* C10 witness: a seventh key, different from the sixth, is pressed
C10_Witness ==
    /\ Len(keys) = 7
    /\ keys[7] # keys[6]
    /\ event_value = Press
    /\ pc = "write"

\* C11: with the shipped chord table the matched length is 0 exactly when
\* the candidate list is empty.
C11_IdleIffNoCandidates ==
    all_chords = ALL_CHORDS => (chord_length = 0 <=> possible_chords = <<>>)

\* C11 witness: a press in the middle of a chord matched no candidate
C11_Witness ==
    /\ event_value = Press
    /\ prev_length >= 2
    /\ chord_length = 0
    /\ possible_chords = <<>>

\* The keyboard session state
session == <<keys, modifiers, chord_buffer, chord_length, possible_chords>>

\* C12: a key event is processed in one step at the read position: the
\* tracker update, the matcher step on the chord buffer the update left, the
\* encoding of the updated lists; then the write of that report, then the
\* flush, and only then the next read. No other step changes the session
\* state or the report.
C12_OneEventAtATime ==
    [][/\ IsKeyStep =>
            LET t == process_key_events(event_value', key_code', keys, modifiers,
                                        chord_buffer)
                c == process_chords(t.chord_buffer, chord_length, possible_chords)
            IN /\ keys' = t.keys
               /\ modifiers' = t.modifiers
               /\ chord_buffer' = c.chord_buffer
               /\ chord_length' = c.chord_length
               /\ possible_chords' = c.possible_chords
               /\ pc' = "write" =>
                     (usb_report' = to_report(modifiers', keys') /\ attempt' = 0)
       /\ ~IsKeyStep => UNCHANGED <<session, usb_report>>
       /\ (pc' = "write" /\ pc # "write") => pc = "read"
       /\ (pc' = "flush" /\ pc # "flush") => pc = "write"
       /\ (pc' = "read" /\ pc # "read") => pc = "flush"]_vars

\* C12 witness: the report of a press has been written and flushed, and the
\* next event is awaited
C12_Witness ==
    /\ pc = "read"
    /\ event_value = Press
    /\ ~skipped
    /\ keys # <<>>
    /\ usb_report = to_report(modifiers, keys)

\* C13: an event that is not a key event changes neither the pressed lists
\* nor the chord buffer, matched length or candidates, gives no report and no
\* error: the read position is kept.
C13_OtherEventSkipped ==
    [][(~skipped /\ skipped')
          => /\ pc = "read"
             /\ pc' = "read"
             /\ UNCHANGED <<session, usb_report, attempt, handled>>]_vars

\* C13 witness: an event was skipped in the middle of a chord, with keys held
C13_Witness ==
    /\ skipped
    /\ pc = "read"
    /\ chord_length >= 2
    /\ chord_buffer # Unknown
    /\ keys # <<>>

\* C14: main fails only out of the read position (the fetch of the next
\* event), with no report encoded for that step; a failed write or flush
\* keeps main in its loops and the session state as it is.
C14_OnlyFetchErrorFails ==
    [][/\ (pc' = "failed" /\ pc # "failed")
            => (pc = "read" /\ UNCHANGED <<session, usb_report, attempt>>)
       /\ pc \in {"write", "flush"}
            => (pc' \in {"write", "flush", "read"} /\ UNCHANGED session)
       /\ pc \in {"failed", "exited"} => pc' = pc]_vars

\* C14 witness: the fetch failed with keys held in the middle of a chord
C14_Witness ==
    /\ pc = "failed"
    /\ keys # <<>>
    /\ chord_length >= 2

\* The left variant, the right variant and the canonical form of a modifier
ModifierSides ==
    {<<"LeftCtrl", "RightCtrl", "EitherCtrl">>,
     <<"LeftShift", "RightShift", "EitherShift">>,
     <<"LeftAlt", "RightAlt", "EitherAlt">>,
     <<"LeftSuper", "RightSuper", "EitherSuper">>}

\* From a Listening state the press of either variant of a modifier gives the
\* same buffer (the canonical form), length, candidates and handler
LeftRightAlike ==
    chord_length >= 1 =>
      \A side \in ModifierSides :
         LET left == AfterPress(Modifier(side[1]), chord_buffer, chord_length,
                                possible_chords)
             right == AfterPress(Modifier(side[2]), chord_buffer, chord_length,
                                 possible_chords)
         IN /\ left = right
            /\ left.chord_buffer = Modifier(side[3])
            /\ left.possible_chords
                 = Retain(possible_chords, chord_length, Modifier(side[3]))

\* C15: from a Listening state the presses of LeftX and of RightX give the
\* same chord buffer (EitherX), matched length, candidates and handler; the
\* candidates kept by a modifier press are those with EitherX at the matched
\* position, and a regular key is compared as it is.
C15_LeftRightModifiers ==
    /\ []LeftRightAlike
    /\ [][(IsKeyStep /\ event_value' = Press /\ chord_length >= 1)
            => /\ key_code'.tag = "Modifier"
                    => \E side \in ModifierSides :
                          /\ key_code'.key \in {side[1], side[2]}
                          /\ chord_buffer' = Modifier(side[3])
                          /\ possible_chords'
                               = Retain(possible_chords, chord_length,
                                        Modifier(side[3]))
               /\ (key_code'.tag = "Regular"
                     /\ key_code' # CHORD_SEQUENCE_START_KEY)
                    => /\ chord_buffer' = key_code'
                       /\ possible_chords'
                            = Retain(possible_chords, chord_length, key_code')]_vars

\* C15 witness: the right shift matched the EitherShift of the quit chord
C15_Witness ==
    /\ event_value = Press
    /\ key_code = Modifier("RightShift")
    /\ prev_length = 1
    /\ chord_length = 2
    /\ chord_buffer = Modifier("EitherShift")
    /\ possible_chords = <<QUIT_CHORD_SEQUENCE>>

\* The matcher after a handler that returned: one candidate, matched to its
\* end or beyond
AfterHandler ==
    /\ Len(possible_chords) = 1
    /\ chord_length >= Len(possible_chords[1])
    /\ ~HandlerExits(possible_chords[1])

\* A handler that returns leaves the matched length advanced, not reset, and
\* its chord as the single candidate
C16_HandlerKeepsMatch ==
    [][(IsKeyStep /\ handled' # <<>> /\ pc' # "exited")
          => /\ chord_length' = chord_length + 1
             /\ possible_chords' = handled'
             /\ ~HandlerExits(handled'[1])]_vars

\* C16: a handler that returns leaves the matched length not reset and its
\* chord as the single candidate, and from then on the candidates are lost
\* only by a press: the start key, which arms the matcher again, or a key
\* that matches no candidate, which empties them.
C16_ListeningUntilPress ==
    /\ C16_HandlerKeepsMatch
    /\ [][(AfterHandler /\ possible_chords' # possible_chords)
            => /\ IsKeyStep
               /\ event_value' = Press
               /\ IF key_code' = CHORD_SEQUENCE_START_KEY
                  THEN chord_length' = 1 /\ possible_chords' = all_chords
                  ELSE chord_length' = 0 /\ possible_chords' = <<>>]_vars

\* The pressed lists a key event gives with no chord table: a function of the
\* event and the lists alone
TrackedWithoutChords(value, code, ks, ms) ==
    LET list == IF code.tag = "Regular" THEN ks ELSE ms
        after == IF value = Press THEN Append(list, code.key)
                 ELSE IF value = Release /\ Position(list, code.key) # 0
                      THEN RemoveAt(list, Position(list, code.key))
                      ELSE list
    IN IF code.tag = "Unknown" \/ value = Repeat
       THEN [keys |-> ks, modifiers |-> ms]
       ELSE IF code.tag = "Regular"
            THEN [keys |-> after, modifiers |-> ms]
            ELSE [keys |-> ks, modifiers |-> after]

\* C17: whatever the matched length and the candidates, a key event leaves
\* the pressed lists as the event and the lists before it alone give them,
\* and the report of the event encodes those lists. (The step of the quit
\* handler tracks its key too and ends the process before any report.)
C17_MatcherKeepsLists ==
    [][IsKeyStep
         => LET t == TrackedWithoutChords(event_value', key_code', keys, modifiers)
            IN /\ keys' = t.keys
               /\ modifiers' = t.modifiers
               /\ pc' = "write"
                    => usb_report' = to_report(t.modifiers, t.keys)]_vars

\* C17 witness: the second key of the quit chord is held and reported
C17_Witness ==
    /\ pc = "write"
    /\ event_value = Press
    /\ key_code = Regular("Grave")
    /\ prev_length = 2
    /\ chord_length = 3
    /\ keys # <<>>
    /\ keys[Len(keys)] = "Grave"
    /\ usb_report[1 + Len(keys)] = UsageCode("Grave")

\* The length of the longest chord of a table
LongestChord(table) ==
    IF table = <<>> THEN 0
    ELSE CHOOSE n \in {Len(table[i]) : i \in 1..Len(table)} :
            \A i \in 1..Len(table) : Len(table[i]) <= n

\* The matched length is at most one more than the length of every
\* remaining candidate, and at most the length of the longest chord plus 1
LengthBounded ==
    /\ \A i \in 1..Len(possible_chords) :
          chord_length <= Len(possible_chords[i]) + 1
    /\ chord_length <= LongestChord(all_chords) + 1

\* The key event runs chord_length += 1: it is not the start key arm nor the
\* early return
Increments ==
    /\ IsKeyStep
    /\ LET t == process_key_events(event_value', key_code', keys, modifiers,
                                   chord_buffer)
       IN /\ t.chord_buffer # CHORD_SEQUENCE_START_KEY
          /\ ~IdleReturn(t.chord_buffer, chord_length, possible_chords)

\* C18, as claimed: the matched length is at most the length of the longest
\* chord plus 1, and with a table of chords shorter than 255 keys the
\* increment of the counter does not overflow.
C18_NoOverflowBelow255 ==
    /\ []LengthBounded
    /\ [][(Increments /\ LongestChord(all_chords) < U8_MAX)
            => chord_length + 1 <= U8_MAX]_vars

\* C18, amended: the matched length is at most the length of the longest
\* chord plus 1, and with a table of chords shorter than 254 keys the
\* increment of the counter does not overflow.
C18_NoOverflowBelow254 ==
    /\ []LengthBounded
    /\ [][(Increments /\ LongestChord(all_chords) < U8_MAX - 1)
            => chord_length + 1 <= U8_MAX]_vars

\* C18 witness: with a chord of 253 keys the matched length was 254, one
\* past its end, and the next press incremented and reset it
C18_Witness ==
    /\ LongestChord(all_chords) = U8_MAX - 2
    /\ event_value = Press
    /\ key_code = Regular("A")
    /\ prev_length = U8_MAX - 1
    /\ chord_length = 0

\* The list a key code is tracked in
ListOf(code, ks, ms) == IF code.tag = "Regular" THEN ks ELSE ms

\* Press then Release of a key that is not tracked gives the lists, and the
\* report, that were there before
RoundTrip ==
    \A code \in TrackedKeyCodes :
       Position(ListOf(code, keys, modifiers), code.key) = 0 =>
         LET p == process_key_events(Press, code, keys, modifiers, chord_buffer)
             r == process_key_events(Release, code, p.keys, p.modifiers,
                                     p.chord_buffer)
         IN /\ ListOf(code, p.keys, p.modifiers)
                 = Append(ListOf(code, keys, modifiers), code.key)
            /\ r.keys = keys
            /\ r.modifiers = modifiers
            /\ to_report(r.modifiers, r.keys) = to_report(modifiers, keys)

\* C19: from every state, pressing and then releasing a recognized key that
\* is not tracked gives back both pressed lists and so the same report; and
\* each release that follows the press of the same key, not tracked before
\* it, takes the lists back to what they were before the press: the list of
\* the key without its last element, the other list as it is. A press
\* appends at the end.
C19_PressReleaseRoundTrip ==
    /\ []RoundTrip
    /\ [][(IsKeyStep /\ event_value' = Press /\ key_code'.tag # "Unknown")
            => ListOf(key_code', keys', modifiers')
                 = Append(ListOf(key_code', keys, modifiers), key_code'.key)]_vars
    /\ [][(/\ IsKeyStep
           /\ event_value' = Release
           /\ event_value = Press
           /\ key_code' = key_code
           /\ key_code.tag # "Unknown"
           /\ Position(ListOf(key_code, keys, modifiers), key_code.key)
                = Len(ListOf(key_code, keys, modifiers)))
            => LET list == ListOf(key_code, keys, modifiers)
                   back == SubSeq(list, 1, Len(list) - 1)
               IN /\ ListOf(key_code, keys', modifiers') = back
                  /\ key_code.tag = "Regular" => modifiers' = modifiers
                  /\ key_code.tag = "Modifier" => keys' = keys
                  /\ usb_report' = to_report(modifiers', keys')]_vars

\* C19 witness: a modifier that was not tracked has been pressed beside a
\* held regular key, and its release gives back the lists before the press
C19_Witness ==
    /\ pc = "read"
    /\ event_value = Press
    /\ key_code = Modifier("LeftShift")
    /\ keys # <<>>
    /\ Len(modifiers) >= 2
    /\ Position(modifiers, "LeftShift") = Len(modifiers)
    /\ ReleaseArm(key_code, keys, modifiers).modifiers
         = SubSeq(modifiers, 1, Len(modifiers) - 1)

===========================================================================
